---- MODULE Spec2Model ----
(***************************************************************************)
(* gxObserver: the event/subject dispatch engine.                          *)
(*                                                                         *)
(* A subject owns events; each event stores its callbacks and a cache of   *)
(* the arguments of the last firing request.  gxSubject keeps the firing   *)
(* mode (on / queue / off) and the queue of events fired while suspended.  *)
(* The subject modelled is one with a normal event evAge (int) and a bound *)
(* event evName (string, bound to GetName()), as ComplexSubject declares   *)
(* them.  Handlers only print, so a handler call is recorded in `calls`.   *)
(***************************************************************************)
EXTENDS Naturals, Sequences, FiniteSets

\* ------------------------------------------------------------------ bounds
NumObservers == 2

\* ------------------------------------------------------------ the subject
Observers == 1..NumObservers

\* The member handler an observer binds in its delegate for an event, as
\* ComplexObserver does.
Handlers(e) == IF e = "evAge" THEN {"OnAgeChanged"} ELSE {"OnName"}

NormalEvents == {"evAge"}

BoundEvents == {"evName"}

Events == NormalEvents \cup BoundEvents

\* ComplexSubject::GetName(), the getter evName is bound to.
GetName == "Crazy!"

\* The bound expression of a bound event, evaluated on the subject.
Resolve(e) == GetName

\* Arguments the subject passes to Fire( event, a1 ); ints are written as numerals.
FireArgs(e) == IF e = "evAge" THEN {"76", "12"} ELSE {"Daisy!"}

\* m1 before the first SetParams: an int member is indeterminate, a string is empty.
InitParams(e) == IF e = "evAge" THEN {"76", "12"} ELSE {""}

\* A delegate memento: the observer object and its member handler.
Callback(o, h) == [obj |-> o, fn |-> h]

\* The default-constructed (empty) gxCallback of gxSubject::Fire( aEvent ).
NoCallback == [obj |-> 0, fn |-> ""]

Objs(cbs) == {cbs[i].obj : i \in 1..Len(cbs)}

VARIABLES
    mCallbacks,   \* per event: the callbacks, in order of registration
    mParams,      \* per event: m1, the cached argument of the last firing request
    mFiringMode,  \* "on", "queue" or "off"
    mEventQueue,  \* events queued while firing is suspended with a queue
    calls,        \* the handler calls the last operation made, in order
    lastOp,       \* the last operation, its arguments and the mode it found
    gFirst,       \* events in order of their first Fire() in this queueing period
    gLast,        \* per event: the argument of its latest Fire() in this period
    gClean,       \* no subscribe/unsubscribe since the last SuspendEvents( true )
    gRun,         \* while gClean: the events fired since the last SuspendEvents( true )
    gOver,        \* while gClean: one of those fires replaced another argument
    gDropped      \* the events fired in mode off and not fired since; {None} when
                  \* that is not recorded

vars == <<mCallbacks, mParams, mFiringMode, mEventQueue, calls, lastOp,
          gFirst, gLast, gOver, gRun, gClean, gDropped>>

None == "-"

\* ------------------------------------------------------------- gxEvent

\* gxEvent keeps one callback per object: a second one of the same object is ignored.
AddCallback(cbs, cb) ==
    IF cb.obj \in Objs(cbs) THEN cbs ELSE Append(cbs, cb)

RemoveCallback(cbs, obj) == SelectSeq(cbs, LAMBDA c : c.obj # obj)

\* gxEvent1::Fire( aCallback ): the delegate is set to the callback and called with m1.
EventFireOne(e, cb, m1) ==
    <<[ev |-> e, obj |-> cb.obj, fn |-> cb.fn, val |-> m1]>>

RECURSIVE FireEach(_, _, _)
FireEach(e, cbs, m1) ==
    IF cbs = <<>> THEN <<>>
    ELSE EventFireOne(e, Head(cbs), m1) \o FireEach(e, Tail(cbs), m1)

\* Mutant: the loop starts after the first callback.
EventFireAllSkipsFirst(e, cbs, m1) ==
    IF cbs = <<>> THEN <<>> ELSE FireEach(e, Tail(cbs), m1)

\* Mutant: the loop runs from the last callback to the first.
RECURSIVE EventFireAllBackwards(_, _, _)
EventFireAllBackwards(e, cbs, m1) ==
    IF cbs = <<>> THEN <<>>
    ELSE EventFireAllBackwards(e, Tail(cbs), m1) \o EventFireOne(e, Head(cbs), m1)

\* gxEvent::Fire(): every callback, first to last.
EventFireAll(e, cbs, m1) == FireEach(e, cbs, m1)

\* ------------------------------------------------------------ gxSubject

\* Only add the event if it is not queued already.
QueueEvent(queue, e) ==
    IF \E i \in 1..Len(queue) : queue[i] = e THEN queue ELSE Append(queue, e)

\* Mutant: the requested callback is ignored, all callbacks are fired.
SubjectFireIgnoresCallback(mode, queue, e, cb, cbs, m1) ==
    IF mode = "on"
    THEN [calls |-> EventFireAll(e, cbs, m1), queue |-> queue]
    ELSE IF mode = "queue"
    THEN [calls |-> <<>>, queue |-> QueueEvent(queue, e)]
    ELSE [calls |-> <<>>, queue |-> queue]

\* Mutant: the event is put on the queue without looking for it there.
SubjectFireAppends(mode, queue, e, cb, cbs, m1) ==
    IF mode = "on"
    THEN [calls |-> IF cb = NoCallback THEN EventFireAll(e, cbs, m1)
                    ELSE EventFireOne(e, cb, m1),
          queue |-> queue]
    ELSE IF mode = "queue"
    THEN [calls |-> <<>>, queue |-> Append(queue, e)]
    ELSE [calls |-> <<>>, queue |-> queue]

\* Mutant: every mode but on queues the event.
SubjectFireQueuesWhenOff(mode, queue, e, cb, cbs, m1) ==
    IF mode = "on"
    THEN [calls |-> IF cb = NoCallback THEN EventFireAll(e, cbs, m1)
                    ELSE EventFireOne(e, cb, m1),
          queue |-> queue]
    ELSE [calls |-> <<>>, queue |-> QueueEvent(queue, e)]

\* gxSubject::Fire( aEvent, aCallback ): the calls made and the queue left,
\* given the event's callbacks and cached argument.
SubjectFire(mode, queue, e, cb, cbs, m1) ==
    IF mode = "on"
    THEN [calls |-> IF cb = NoCallback THEN EventFireAll(e, cbs, m1)
                    ELSE EventFireOne(e, cb, m1),
          queue |-> queue]
    ELSE IF mode = "queue"
    THEN [calls |-> <<>>, queue |-> QueueEvent(queue, e)]
    ELSE [calls |-> <<>>, queue |-> queue]

\* The queued events are fired first to last, each to all its callbacks.
RECURSIVE FireQueued(_, _, _)
FireQueued(queue, cbs, params) ==
    IF queue = <<>> THEN <<>>
    ELSE EventFireAll(Head(queue), cbs[Head(queue)], params[Head(queue)])
         \o FireQueued(Tail(queue), cbs, params)

\* ------------------------------------------------- history (not program state)

Op(name, e, o, h, v, had) ==
    [op |-> name, ev |-> e, obj |-> o, fn |-> h, val |-> v,
     mode |-> mFiringMode, had |-> had]

NoneFired == [e \in Events |-> None]

InSeq(q, x) == \E i \in 1..Len(q) : q[i] = x

HistoryReset ==
    /\ gFirst' = <<>>
    /\ gLast' = NoneFired
    /\ gOver' = FALSE
    /\ gRun' = {}
    /\ gClean' = TRUE

\* A call other than Fire was made: what was dropped is forgotten by the call
\* that follows a ResumeEvents().
KeepDropped ==
    gDropped' = IF mFiringMode = "on" /\ None \notin gDropped THEN {} ELSE gDropped

\* A subscribe or unsubscribe was made.
HistoryOfSubscription ==
    /\ KeepDropped
    /\ IF mFiringMode # "queue" THEN HistoryReset
       ELSE /\ gClean' = FALSE
            /\ gRun' = {}
            /\ gOver' = FALSE
            /\ UNCHANGED <<gFirst, gLast>>

\* Fire( e, a1 ) was called.
HistoryOfFire(e, a1) ==
    /\ gDropped' = IF None \in gDropped THEN gDropped
                   ELSE IF mFiringMode = "off" THEN gDropped \cup {e}
                   ELSE IF mFiringMode = "queue" THEN gDropped \ {e}
                   ELSE {}
    /\ IF mFiringMode # "queue" THEN HistoryReset
       ELSE /\ gFirst' = IF InSeq(gFirst, e) THEN gFirst ELSE Append(gFirst, e)
            /\ gLast' = [gLast EXCEPT ![e] = a1]
            /\ gRun' = IF gClean THEN gRun \cup {e} ELSE {}
            /\ gOver' = (gClean /\ (gOver \/ (e \in gRun /\ gLast[e] # a1)))
            /\ UNCHANGED gClean

\* ------------------------------------------------------------- actions

\* A subject as constructed: no callbacks, firing on, nothing queued.
Constructed ==
    /\ mCallbacks = [e \in Events |-> <<>>]
    /\ mParams \in {f \in [Events -> {"76", "12", ""}] :
                      \A e \in Events : f[e] \in InitParams(e)}
    /\ mFiringMode = "on"
    /\ mEventQueue = <<>>
    /\ calls = <<>>
    /\ lastOp = [op |-> "new", ev |-> None, obj |-> 0, fn |-> "", val |-> None,
                 mode |-> "on", had |-> FALSE]
    /\ gFirst = <<>>
    /\ gLast = NoneFired
    /\ gOver = FALSE
    /\ gRun = {}
    /\ gClean = TRUE

Init ==
    /\ Constructed
    /\ gDropped = {None}

\* evAgeSubscribe( aDelegate )
Subscribe(e, o, h) ==
    /\ e \in NormalEvents
    /\ mCallbacks' = [mCallbacks EXCEPT ![e] = AddCallback(@, Callback(o, h))]
    /\ calls' = <<>>
    /\ lastOp' = Op("subscribe", e, o, h, None, o \in Objs(mCallbacks[e]))
    /\ HistoryOfSubscription
    /\ UNCHANGED <<mParams, mFiringMode, mEventQueue>>

\* evNameSubscribe( aDelegate )
BoundSubscribe(e, o, h) ==
    /\ e \in BoundEvents
    /\ LET cbs == AddCallback(mCallbacks[e], Callback(o, h))
           m1  == Resolve(e)
           r   == SubjectFire(mFiringMode, mEventQueue, e, Callback(o, h), cbs, m1)
       IN /\ mCallbacks' = [mCallbacks EXCEPT ![e] = cbs]
          /\ mParams' = [mParams EXCEPT ![e] = m1]
          /\ calls' = r.calls
          /\ mEventQueue' = r.queue
    /\ lastOp' = Op("subscribe", e, o, h, None, o \in Objs(mCallbacks[e]))
    /\ HistoryOfSubscription
    /\ UNCHANGED mFiringMode

\* Mutant: the generated method unsubscribes from another event.
UnsubscribeFromOther(e, o) ==
    /\ mCallbacks' = [x \in Events |->
                        IF x = e THEN mCallbacks[x]
                        ELSE RemoveCallback(mCallbacks[x], o)]
    /\ calls' = <<>>
    /\ lastOp' = Op("unsubscribe", e, o, "", None, o \in Objs(mCallbacks[e]))
    /\ HistoryOfSubscription
    /\ UNCHANGED <<mParams, mFiringMode, mEventQueue>>

\* Mutant: when the object has no callback on the event, the first one is removed.
UnsubscribeRemovesSome(e, o) ==
    /\ mCallbacks' = [mCallbacks EXCEPT ![e] =
                         IF o \in Objs(@) \/ @ = <<>> THEN RemoveCallback(@, o)
                         ELSE Tail(@)]
    /\ calls' = <<>>
    /\ lastOp' = Op("unsubscribe", e, o, "", None, o \in Objs(mCallbacks[e]))
    /\ HistoryOfSubscription
    /\ UNCHANGED <<mParams, mFiringMode, mEventQueue>>

\* evAgeUnsubscribe( aObj ), evNameUnsubscribe( aObj )
Unsubscribe(e, o) ==
    /\ mCallbacks' = [mCallbacks EXCEPT ![e] = RemoveCallback(@, o)]
    /\ calls' = <<>>
    /\ lastOp' = Op("unsubscribe", e, o, "", None, o \in Objs(mCallbacks[e]))
    /\ HistoryOfSubscription
    /\ UNCHANGED <<mParams, mFiringMode, mEventQueue>>

\* Mutant: a bound event is filled from its getter whatever argument is given.
FireUsesGetter(e, a1) ==
    /\ a1 \in FireArgs(e)
    /\ LET m1 == IF e \in BoundEvents THEN Resolve(e) ELSE a1
           r  == SubjectFire(mFiringMode, mEventQueue, e, NoCallback,
                             mCallbacks[e], m1)
       IN /\ mParams' = [mParams EXCEPT ![e] = m1]
          /\ calls' = r.calls
          /\ mEventQueue' = r.queue
    /\ lastOp' = Op("fire", e, 0, "", a1, FALSE)
    /\ HistoryOfFire(e, a1)
    /\ UNCHANGED <<mCallbacks, mFiringMode>>

\* Mutant: the argument is cached only when the event is not queued yet.
FireKeepsFirst(e, a1) ==
    /\ a1 \in FireArgs(e)
    /\ LET r == SubjectFire(mFiringMode, mEventQueue, e, NoCallback,
                            mCallbacks[e], a1)
       IN /\ mParams' = IF InSeq(mEventQueue, e) THEN mParams
                         ELSE [mParams EXCEPT ![e] = a1]
          /\ calls' = r.calls
          /\ mEventQueue' = r.queue
    /\ lastOp' = Op("fire", e, 0, "", a1, FALSE)
    /\ HistoryOfFire(e, a1)
    /\ UNCHANGED <<mCallbacks, mFiringMode>>

\* Fire( evAge, a1 ), Fire( evName, a1 )
Fire(e, a1) ==
    /\ a1 \in FireArgs(e)
    /\ LET r == SubjectFire(mFiringMode, mEventQueue, e, NoCallback,
                            mCallbacks[e], a1)
       IN /\ mParams' = [mParams EXCEPT ![e] = a1]
          /\ calls' = r.calls
          /\ mEventQueue' = r.queue
    /\ lastOp' = Op("fire", e, 0, "", a1, FALSE)
    /\ HistoryOfFire(e, a1)
    /\ UNCHANGED <<mCallbacks, mFiringMode>>

\* Fire( evName ): the argument comes from the getter.
FireBound(e) ==
    /\ e \in BoundEvents
    /\ LET a1 == Resolve(e)
           r  == SubjectFire(mFiringMode, mEventQueue, e, NoCallback,
                             mCallbacks[e], a1)
       IN /\ mParams' = [mParams EXCEPT ![e] = a1]
          /\ calls' = r.calls
          /\ mEventQueue' = r.queue
          /\ HistoryOfFire(e, a1)
    /\ lastOp' = Op("firebound", e, 0, "", None, FALSE)
    /\ UNCHANGED <<mCallbacks, mFiringMode>>

\* SuspendEvents( aQueue ) was called.
HistoryOfSuspend(aQueue) ==
    /\ KeepDropped
    /\ IF mFiringMode = "queue" /\ aQueue
       THEN /\ gClean' = TRUE
            /\ gRun' = {}
            /\ gOver' = FALSE
            /\ UNCHANGED <<gFirst, gLast>>
       ELSE IF mFiringMode = "queue"
       THEN UNCHANGED <<gFirst, gLast, gOver, gRun, gClean>>
       ELSE HistoryReset

\* Mutant: the mode is switched, what is queued stays queued.
SuspendEventsKeepsQueue(aQueue) ==
    /\ mFiringMode' = IF aQueue THEN "queue" ELSE "off"
    /\ calls' = <<>>
    /\ lastOp' = Op("suspend", None, 0, "", IF aQueue THEN "true" ELSE "false", FALSE)
    /\ HistoryOfSuspend(aQueue)
    /\ UNCHANGED <<mCallbacks, mParams, mEventQueue>>

\* Mutant: every SuspendEvents starts with an empty queue.
SuspendEventsClearsQueue(aQueue) ==
    /\ mFiringMode' = IF aQueue THEN "queue" ELSE "off"
    /\ mEventQueue' = <<>>
    /\ calls' = <<>>
    /\ lastOp' = Op("suspend", None, 0, "", IF aQueue THEN "true" ELSE "false", FALSE)
    /\ HistoryOfSuspend(aQueue)
    /\ UNCHANGED <<mCallbacks, mParams>>

\* SuspendEvents( aQueue )
SuspendEvents(aQueue) ==
    /\ mFiringMode' = IF aQueue THEN "queue" ELSE "off"
    /\ mEventQueue' = IF aQueue THEN mEventQueue ELSE <<>>
    /\ calls' = <<>>
    /\ lastOp' = Op("suspend", None, 0, "", IF aQueue THEN "true" ELSE "false", FALSE)
    /\ HistoryOfSuspend(aQueue)
    /\ UNCHANGED <<mCallbacks, mParams>>

\* Mutant: only a queueing subject is resumed.
ResumeEventsWhenQueueing ==
    /\ calls' = IF mFiringMode = "queue"
                THEN FireQueued(mEventQueue, mCallbacks, mParams)
                ELSE <<>>
    /\ mEventQueue' = <<>>
    /\ mFiringMode' = IF mFiringMode = "queue" THEN "on" ELSE mFiringMode
    /\ lastOp' = Op("resume", None, 0, "", None, FALSE)
    /\ KeepDropped
    /\ IF mFiringMode = "on"
       THEN HistoryReset
       ELSE UNCHANGED <<gFirst, gLast, gOver, gRun, gClean>>
    /\ UNCHANGED <<mCallbacks, mParams>>

\* ResumeEvents()
ResumeEvents ==
    /\ calls' = IF mFiringMode = "queue"
                THEN FireQueued(mEventQueue, mCallbacks, mParams)
                ELSE <<>>
    /\ mEventQueue' = <<>>
    /\ mFiringMode' = "on"
    /\ lastOp' = Op("resume", None, 0, "", None, FALSE)
    /\ KeepDropped
    /\ IF mFiringMode = "on"
       THEN HistoryReset
       ELSE UNCHANGED <<gFirst, gLast, gOver, gRun, gClean>>
    /\ UNCHANGED <<mCallbacks, mParams>>

Next ==
    \/ \E e \in Events, o \in Observers : \E h \in Handlers(e) : Subscribe(e, o, h)
    \/ \E e \in Events, o \in Observers : \E h \in Handlers(e) : BoundSubscribe(e, o, h)
    \/ \E e \in Events, o \in Observers : Unsubscribe(e, o)
    \/ \E e \in Events : \E a1 \in FireArgs(e) : Fire(e, a1)
    \/ \E e \in Events : FireBound(e)
    \/ \E aQueue \in BOOLEAN : SuspendEvents(aQueue)
    \/ ResumeEvents

Spec == Init /\ [][Next]_vars

\* The same subject and calls, with the dropped fires recorded.
InitDropped ==
    /\ Constructed
    /\ gDropped = {}

SpecDropped == InitDropped /\ [][Next]_vars

\* ------------------------------------------- handlers that call the subject

\* Where the callback of obj is in cbs, 0 when it has none.
IndexOf(cbs, obj) ==
    IF obj \in Objs(cbs) THEN CHOOSE i \in 1..Len(cbs) : cbs[i].obj = obj ELSE 0

\* ++iCallback on an iterator whose callback was erased is undefined: the loop
\* may go on with the callback that followed, pass over it, or end.
IteratorOutcomes == {"next", "skip", "end"}

\* gxEvent::Fire() over cbs when the handler of the k-th callback leaves the
\* container as cbs2: the loop reads the container itself, so it goes on after
\* the place of the k-th callback in cbs2; when that callback is no longer
\* there the iterator is invalid and the outcome says where the loop goes on.
EventFireAllMutated(e, cbs, cbs2, k, m1, outcome) ==
    LET at   == IndexOf(cbs2, cbs[k].obj)
        from == IF at # 0 THEN at + 1
                ELSE IF outcome = "next" THEN k
                ELSE IF outcome = "skip" THEN k + 1
                ELSE Len(cbs2) + 1
    IN FireEach(e, SubSeq(cbs, 1, k), m1)
       \o FireEach(e, SubSeq(cbs2, from, Len(cbs2)), m1)

\* Fire( e, a1 ) in mode on, where the handler of the k-th callback calls
\* gxSubscribe( e, h ) or gxUnsubscribe( e ) for observer o2.
FireWithHandler(e, a1, k, op, o2, h, outcome) ==
    /\ mFiringMode = "on"
    /\ a1 \in FireArgs(e)
    /\ k \in 1..Len(mCallbacks[e])
    /\ op = "subscribe" => e \in NormalEvents
    /\ LET cbs  == mCallbacks[e]
           cbs2 == IF op = "subscribe" THEN AddCallback(cbs, Callback(o2, h))
                   ELSE RemoveCallback(cbs, o2)
       IN /\ mCallbacks' = [mCallbacks EXCEPT ![e] = cbs2]
          /\ calls' = EventFireAllMutated(e, cbs, cbs2, k, a1, outcome)
    /\ mParams' = [mParams EXCEPT ![e] = a1]
    /\ lastOp' = [op |-> "fire", ev |-> e, obj |-> o2, fn |-> h, val |-> a1,
                  mode |-> mFiringMode, had |-> o2 \in Objs(mCallbacks[e]),
                  at |-> k, does |-> op]
    /\ HistoryReset
    /\ KeepDropped
    /\ UNCHANGED <<mFiringMode, mEventQueue>>

NextReentrant ==
    \/ Next
    \/ \E e \in Events, o2 \in Observers, op \in {"subscribe", "unsubscribe"} :
          \E a1 \in FireArgs(e), k \in Observers, h \in Handlers(e),
             outcome \in IteratorOutcomes :
                FireWithHandler(e, a1, k, op, o2, h, outcome)

SpecReentrant == Init /\ [][NextReentrant]_vars

\* ResumeEvents() in mode queue, where the handler of the k-th callback of the
\* j-th queued event calls Fire( f, v ): the mode is still queue, so the
\* argument is cached and the event queued if it is not there. The callbacks
\* that follow are called with the arguments cached by then. Whether an event
\* put at the end of the queue during the drain is still fired by it is not
\* fixed (seesNew); then the queue is cleared and the mode set to on.
ResumeEventsWithHandler(j, k, f, v, seesNew) ==
    /\ mFiringMode = "queue"
    /\ j \in 1..Len(mEventQueue)
    /\ k \in 1..Len(mCallbacks[mEventQueue[j]])
    /\ v \in FireArgs(f)
    /\ LET e       == mEventQueue[j]
           params2 == [mParams EXCEPT ![f] = v]
           r       == SubjectFire(mFiringMode, mEventQueue, f, NoCallback,
                                  mCallbacks[f], v)
           before  == FireQueued(SubSeq(mEventQueue, 1, j - 1), mCallbacks, mParams)
                      \o FireEach(e, SubSeq(mCallbacks[e], 1, k), mParams[e])
           rest    == IF seesNew THEN SubSeq(r.queue, j + 1, Len(r.queue))
                      ELSE SubSeq(mEventQueue, j + 1, Len(mEventQueue))
       IN /\ calls' = before
                      \o r.calls
                      \o FireEach(e, SubSeq(mCallbacks[e], k + 1, Len(mCallbacks[e])),
                                  params2[e])
                      \o FireQueued(rest, mCallbacks, params2)
          /\ mParams' = params2
          /\ lastOp' = [op |-> "resume", ev |-> f, obj |-> 0, fn |-> "", val |-> v,
                        mode |-> mFiringMode, had |-> FALSE, after |-> Len(before)]
    /\ mEventQueue' = <<>>
    /\ mFiringMode' = "on"
    /\ HistoryReset
    /\ KeepDropped
    /\ UNCHANGED mCallbacks

NextDrain ==
    \/ Next
    \/ \E j \in 1..Cardinality(Events), k \in Observers, f \in Events :
          \E v \in FireArgs(f), seesNew \in BOOLEAN :
             ResumeEventsWithHandler(j, k, f, v, seesNew)

SpecDrain == Init /\ [][NextDrain]_vars

\* ------------------------------------------------- handlers that throw

\* Mutant: the loop catches what a handler throws and goes on.
EventFireAllCatching(e, cbs, m1, k) ==
    [calls |-> FireEach(e, cbs, m1), thrown |-> "none"]

\* gxEvent::Fire() when the handler of the k-th callback throws: the loop has
\* no handler for it, so it leaves the loop and the function.
EventFireAllThrowing(e, cbs, m1, k) ==
    [calls |-> FireEach(e, SubSeq(cbs, 1, k), m1), thrown |-> "handler"]

\* Fire( e, a1 ) in mode on, where the handler of the k-th callback throws.
FireThrowing(e, a1, k) ==
    /\ mFiringMode = "on"
    /\ a1 \in FireArgs(e)
    /\ k \in 1..Len(mCallbacks[e])
    /\ LET r == EventFireAllThrowing(e, mCallbacks[e], a1, k)
       IN /\ calls' = r.calls
          /\ lastOp' = [op |-> "fire", ev |-> e, obj |-> mCallbacks[e][k].obj,
                        fn |-> mCallbacks[e][k].fn, val |-> a1,
                        mode |-> mFiringMode, had |-> FALSE, thrown |-> r.thrown]
    /\ mParams' = [mParams EXCEPT ![e] = a1]
    /\ HistoryReset
    /\ KeepDropped
    /\ UNCHANGED <<mCallbacks, mFiringMode, mEventQueue>>

\* ResumeEvents() in mode queue, where the handler of the k-th callback of the
\* j-th queued event throws: the rest of ResumeEvents() is not run.
ResumeEventsThrowing(j, k) ==
    /\ mFiringMode = "queue"
    /\ j \in 1..Len(mEventQueue)
    /\ k \in 1..Len(mCallbacks[mEventQueue[j]])
    /\ LET e == mEventQueue[j]
           r == EventFireAllThrowing(e, mCallbacks[e], mParams[e], k)
       IN /\ calls' = FireQueued(SubSeq(mEventQueue, 1, j - 1), mCallbacks, mParams)
                      \o r.calls
          /\ lastOp' = [op |-> "resume", ev |-> e, obj |-> mCallbacks[e][k].obj,
                        fn |-> mCallbacks[e][k].fn, val |-> None,
                        mode |-> mFiringMode, had |-> FALSE, thrown |-> r.thrown]
    /\ KeepDropped
    /\ UNCHANGED <<mCallbacks, mParams, mFiringMode, mEventQueue,
                   gFirst, gLast, gOver, gRun, gClean>>

NextThrowing ==
    \/ Next
    \/ \E e \in Events, k \in Observers : \E a1 \in FireArgs(e) : FireThrowing(e, a1, k)
    \/ \E j \in 1..Cardinality(Events), k \in Observers : ResumeEventsThrowing(j, k)

SpecThrowing == Init /\ [][NextThrowing]_vars

\* ------------------------------------ observers with two handlers per event

\* A second member function of the observer with the event's signature.
OtherHandlers(e) == IF e = "evAge" THEN {"OnAgeChanged2"} ELSE {"OnName2"}

NextHandlers ==
    \/ Next
    \/ \E e \in Events, o \in Observers : \E h \in OtherHandlers(e) : Subscribe(e, o, h)
    \/ \E e \in Events, o \in Observers : \E h \in OtherHandlers(e) : BoundSubscribe(e, o, h)

SpecHandlers == Init /\ [][NextHandlers]_vars

\* ---------------------------------------------------------------- claims

Did(name) == lastOp.op = name

DidFire == lastOp.op \in {"fire", "firebound"}

Registered(e, o) == o \in Objs(mCallbacks[e])

\* How many of the calls in cs went to observer o for event e.
CallCount(cs, e, o) ==
    Cardinality({i \in 1..Len(cs) : cs[i].ev = e /\ cs[i].obj = o})

\* C1: an event's callback list never holds two entries of the same observer,
\* and a fire in mode on calls each registered observer's handler exactly once
\* (and no unregistered one).
C1_DedupOnSubscribe ==
    /\ \A e \in Events : \A i, j \in 1..Len(mCallbacks[e]) :
          mCallbacks[e][i].obj = mCallbacks[e][j].obj => i = j
    /\ (DidFire /\ lastOp.mode = "on") =>
          \A o \in Observers :
             CallCount(calls, lastOp.ev, o) =
                IF Registered(lastOp.ev, o) THEN 1 ELSE 0

\* An observer subscribed again to an event it is registered on, and still has one entry.
C1_Witness ==
    /\ Did("subscribe") /\ lastOp.had /\ lastOp.ev = "evAge"
    /\ Len(mCallbacks["evAge"]) = 2
    /\ Cardinality({i \in 1..2 : mCallbacks["evAge"][i].obj = lastOp.obj}) = 1

\* C2: in mode on, a new observer's subscribe to a bound event makes exactly one
\* handler call: to that observer's handler, with the value the bound
\* expression has; no other handler is called.
C2_BoundInitialSync ==
    (Did("subscribe") /\ lastOp.ev \in BoundEvents /\ lastOp.mode = "on"
       /\ ~lastOp.had)
    => calls = <<[ev |-> lastOp.ev, obj |-> lastOp.obj, fn |-> lastOp.fn,
                  val |-> Resolve(lastOp.ev)]>>

\* A second observer subscribed to evName while the first is registered on both events.
C2_Witness ==
    /\ Did("subscribe") /\ lastOp.ev = "evName" /\ lastOp.mode = "on" /\ ~lastOp.had
    /\ Len(mCallbacks["evName"]) = 2
    /\ mCallbacks["evAge"] # <<>>
    /\ Len(calls) = 1

\* C3: when SuspendEvents( true ) is followed by fires only and then
\* ResumeEvents(), every observer registered on a fired event gets exactly one
\* call for it at the resume, carrying the argument of the event's last fire;
\* and nothing is called while suspended.
C3_QueueCoalescing ==
    /\ (Did("resume") /\ lastOp.mode = "queue" /\ gClean) =>
          \A e \in gRun :
             /\ \A o \in Observers :
                   CallCount(calls, e, o) = IF Registered(e, o) THEN 1 ELSE 0
             /\ \A i \in 1..Len(calls) :
                   calls[i].ev = e => calls[i].val = gLast[e]
    /\ (mFiringMode = "queue" /\ gClean) => calls = <<>>

\* evAge alone was fired while suspended, with 76 and then 12, and two observers
\* were called at the resume.
C3_Witness ==
    /\ Did("resume") /\ lastOp.mode = "queue" /\ gClean
    /\ gFirst = <<"evAge">> /\ gRun = {"evAge"} /\ gOver /\ gLast["evAge"] = "12"
    /\ Len(mCallbacks["evAge"]) = 2
    /\ Len(calls) = 2

\* C4: after SuspendEvents( false ) a fire calls no handler and queues nothing,
\* the queue is empty as long as the mode is off, and the ResumeEvents() that
\* ends it calls no handler.
C4_DropDiscard ==
    /\ mFiringMode = "off" => mEventQueue = <<>>
    /\ (DidFire /\ lastOp.mode = "off") => calls = <<>> /\ mEventQueue = <<>>
    /\ (Did("resume") /\ lastOp.mode = "off") => calls = <<>> /\ mEventQueue = <<>>

\* An event with two registered observers was fired in mode off.
C4_Witness ==
    /\ Did("fire") /\ lastOp.mode = "off"
    /\ Len(mCallbacks[lastOp.ev]) = 2
    /\ mParams[lastOp.ev] = lastOp.val

\* C5: an unsubscribe leaves the observer unregistered on the event, and while
\* it is unregistered every operation but its own subscribe to that event
\* leaves it so and calls no handler of it for the event: no fire in mode on
\* and no resume of a queued fire.
C5_UnsubscribeStopsDelivery ==
    [][ /\ lastOp'.op = "unsubscribe" =>
              lastOp'.obj \notin Objs(mCallbacks'[lastOp'.ev])
        /\ \A e \in Events, o \in Observers :
              (/\ ~Registered(e, o)
               /\ ~(lastOp'.op = "subscribe" /\ lastOp'.ev = e /\ lastOp'.obj = o))
              => /\ o \notin Objs(mCallbacks'[e])
                 /\ CallCount(calls', e, o) = 0 ]_vars

\* A registered observer unsubscribed from an event that is waiting in the queue.
C5_Witness ==
    /\ Did("unsubscribe") /\ lastOp.had /\ lastOp.mode = "queue"
    /\ InSeq(mEventQueue, lastOp.ev)
    /\ mCallbacks[lastOp.ev] # <<>>

\* C6: at a resume, the calls for an event that was first fired earlier in the
\* queueing period all come before the calls for an event first fired later.
C6_CrossEventOrder ==
    (Did("resume") /\ lastOp.mode = "queue") =>
       \A i, j \in 1..Len(gFirst) : i < j =>
          \A m, n \in 1..Len(calls) :
             (calls[m].ev = gFirst[i] /\ calls[n].ev = gFirst[j]) => m < n

\* C7: in mode on, Fire( E, v ) on a bound event calls every registered
\* observer once with v, and Fire( E ) calls every registered observer once
\* with the value of the bound expression; no call carries another value.
C7_ManualBoundFire ==
    (DidFire /\ lastOp.ev \in BoundEvents /\ lastOp.mode = "on") =>
       LET v == IF Did("fire") THEN lastOp.val ELSE Resolve(lastOp.ev)
       IN /\ \A o \in Observers : Registered(lastOp.ev, o) =>
                CallCount(calls, lastOp.ev, o) = 1
          /\ \A i \in 1..Len(calls) :
                calls[i].ev = lastOp.ev /\ calls[i].val = v

\* evName was fired with an argument that is not what GetName() returns, to two observers.
C7_Witness ==
    /\ Did("fire") /\ lastOp.ev = "evName" /\ lastOp.mode = "on"
    /\ lastOp.val # Resolve("evName")
    /\ Len(mCallbacks["evName"]) = 2
    /\ Len(calls) = 2

\* C8: in every firing mode, a new observer's subscribe to a bound event calls
\* that observer's handler, and only it, with the value of the bound
\* expression before it returns, and does not put the event on the queue.
C8_SubscribeDeliversInEveryMode ==
    [][ (lastOp'.op = "subscribe" /\ lastOp'.ev \in BoundEvents /\ ~lastOp'.had)
        => /\ calls' = <<[ev |-> lastOp'.ev, obj |-> lastOp'.obj,
                          fn |-> lastOp'.fn, val |-> Resolve(lastOp'.ev)]>>
           /\ InSeq(mEventQueue', lastOp'.ev) => InSeq(mEventQueue, lastOp'.ev)
      ]_vars

\* C9: a resume calls handlers only for events that were fired while the
\* subject was queueing, since the last resume.
C9_ResumeDeliversFiredOnly ==
    Did("resume") =>
       \A i \in 1..Len(calls) :
          lastOp.mode = "queue" /\ InSeq(gFirst, calls[i].ev)

\* C10: the queue holds no event twice, and is empty whenever the mode is on.
C10_QueueInvariant ==
    /\ \A i, j \in 1..Len(mEventQueue) : mEventQueue[i] = mEventQueue[j] => i = j
    /\ mFiringMode = "on" => mEventQueue = <<>>

\* Two events are queued, one of them fired again with another argument.
C10_Witness ==
    /\ DidFire /\ mFiringMode = "queue"
    /\ gClean /\ gOver
    /\ Len(mEventQueue) = 2

\* C11: SuspendEvents( false ) leaves the mode off and the queue empty and
\* calls no handler, whatever the mode and the queue were; and the
\* ResumeEvents() that ends mode off calls no handler, so what was queued
\* before the SuspendEvents( false ) is never delivered.
C11_SuspendDropDiscardsQueue ==
    /\ (Did("suspend") /\ lastOp.val = "false") =>
          /\ mFiringMode = "off"
          /\ mEventQueue = <<>>
          /\ calls = <<>>
    /\ (Did("resume") /\ lastOp.mode = "off") =>
          /\ calls = <<>>
          /\ mEventQueue = <<>>

\* An event with observers was fired while queueing, then SuspendEvents( false )
\* and ResumeEvents() were called.
C11_Witness ==
    /\ Did("resume") /\ lastOp.mode = "off"
    /\ gFirst # <<>>
    /\ \A i \in 1..Len(gFirst) : mCallbacks[gFirst[i]] # <<>>

\* C12: ResumeEvents() leaves the mode on and the queue empty, whatever the
\* mode was; called in mode on it calls no handler and changes neither the
\* mode, the queue, the callbacks nor the cached arguments.
C12_ResumeEndsEnabled ==
    [][ lastOp'.op = "resume" =>
           /\ mFiringMode' = "on"
           /\ mEventQueue' = <<>>
           /\ mFiringMode = "on" =>
                 /\ calls' = <<>>
                 /\ mEventQueue' = mEventQueue
                 /\ mCallbacks' = mCallbacks
                 /\ mParams' = mParams ]_vars

\* ResumeEvents() was called in mode on, on a subject with observers on every event.
C12_Witness ==
    /\ Did("resume") /\ lastOp.mode = "on"
    /\ \A e \in Events : mCallbacks[e] # <<>>
    /\ calls = <<>>

\* C13: a subscribe to a bound event by an observer that is already registered
\* on it has no effect: the callbacks and the cached arguments are unchanged,
\* the event is not put on the queue and no handler is called.
C13_RedundantBoundSubscribeIsNoOp ==
    [][ (lastOp'.op = "subscribe" /\ lastOp'.ev \in BoundEvents /\ lastOp'.had)
        => /\ calls' = <<>>
           /\ mCallbacks' = mCallbacks
           /\ mParams' = mParams
           /\ mEventQueue' = mEventQueue
      ]_vars

\* C14: every call made by the ResumeEvents() that ends a queueing period, for
\* an event fired in that period, carries the argument of the event's last
\* Fire of the period, whatever subscribes and unsubscribes came in between.
C14_ResumeDeliversLastFired ==
    (Did("resume") /\ lastOp.mode = "queue") =>
       \A i \in 1..Len(calls) :
          InSeq(gFirst, calls[i].ev) => calls[i].val = gLast[calls[i].ev]

\* C15: a Fire in mode on calls the callbacks of the fired event, each once,
\* in the order their observers subscribed, each with the fired argument; it
\* calls no callback of another event and leaves the queue empty and the mode
\* on. (A new observer's callback is put after those already there.)
C15_EnabledFire ==
    [][ /\ (lastOp'.op \in {"fire", "firebound"} /\ mFiringMode = "on") =>
              LET e  == lastOp'.ev
                  a1 == IF lastOp'.op = "fire" THEN lastOp'.val ELSE Resolve(e)
              IN /\ calls' = [i \in 1..Len(mCallbacks[e]) |->
                                [ev |-> e, obj |-> mCallbacks[e][i].obj,
                                 fn |-> mCallbacks[e][i].fn, val |-> a1]]
                 /\ mEventQueue' = <<>>
                 /\ mFiringMode' = "on"
        /\ (lastOp'.op = "subscribe" /\ ~lastOp'.had) =>
              mCallbacks'[lastOp'.ev] =
                 Append(mCallbacks[lastOp'.ev], Callback(lastOp'.obj, lastOp'.fn))
      ]_vars

\* An event with two observers, the higher-numbered subscribed first, was fired
\* in mode on.
C15_Witness ==
    /\ Did("fire") /\ lastOp.mode = "on"
    /\ Len(calls) = 2
    /\ calls[1].obj > calls[2].obj
    /\ \E e \in Events \ {lastOp.ev} : mCallbacks[e] # <<>>

\* C16: when a handler called by a Fire pass over an event subscribes or
\* unsubscribes an observer on that event, every observer that was registered
\* when the pass began and is still registered at its turn is called exactly
\* once, no observer is called twice, and an observer unsubscribed before its
\* turn is not called.
C16_ReentrantMutationSafe ==
    [][ (lastOp'.op = "fire" /\ "does" \in DOMAIN lastOp') =>
           LET e    == lastOp'.ev
               k    == lastOp'.at
               cbs  == mCallbacks[e]
               cbs2 == mCallbacks'[e]
           IN \A o \in Objs(cbs) :
                 /\ CallCount(calls', e, o) <= 1
                 /\ (IndexOf(cbs, o) <= k \/ o \in Objs(cbs2))
                       => CallCount(calls', e, o) = 1
                 /\ (IndexOf(cbs, o) > k /\ o \notin Objs(cbs2))
                       => CallCount(calls', e, o) = 0
      ]_vars

\* C17: when a handler called by the drain of ResumeEvents() calls Fire( f, v ),
\* every observer registered on f is called for f with v after that Fire and
\* before ResumeEvents() returns, and ResumeEvents() leaves the mode on and the
\* queue empty.
C17_NoFireLostDuringDrain ==
    (Did("resume") /\ "after" \in DOMAIN lastOp) =>
       /\ mFiringMode = "on"
       /\ mEventQueue = <<>>
       /\ \A o \in Objs(mCallbacks[lastOp.ev]) :
             \E i \in (lastOp.after + 1)..Len(calls) :
                /\ calls[i].ev = lastOp.ev
                /\ calls[i].obj = o
                /\ calls[i].val = lastOp.val

\* C18: a Fire in mode off caches its argument, queues nothing and calls no
\* handler; and when SuspendEvents( true ) and then ResumeEvents() follow
\* without the event being fired again, the resume calls no handler for it.
C18_DroppedNeverRecovered ==
    /\ (DidFire /\ lastOp.mode = "off") =>
          /\ calls = <<>>
          /\ mEventQueue = <<>>
          /\ Did("fire") => mParams[lastOp.ev] = lastOp.val
    /\ (Did("resume") /\ lastOp.mode = "queue") =>
          \A i \in 1..Len(calls) : calls[i].ev \notin gDropped

\* C19: a subscribe by an observer that is already registered on the event,
\* with whatever handler, leaves the callbacks as they are, and every call
\* made to an observer for an event goes to the handler the observer is
\* registered with on that event, the one of its first subscribe.
C19_FirstRegistrationWins ==
    [][ /\ (lastOp'.op = "subscribe" /\ lastOp'.had) => mCallbacks' = mCallbacks
        /\ \A i \in 1..Len(calls') :
              \A j \in 1..Len(mCallbacks'[calls'[i].ev]) :
                 mCallbacks'[calls'[i].ev][j].obj = calls'[i].obj
                    => mCallbacks'[calls'[i].ev][j].fn = calls'[i].fn
      ]_vars

\* C20: when a handler throws during the pass of a Fire or of a ResumeEvents(),
\* what it threw reaches the caller as it is, the throwing handler's call is
\* the last one made, the callbacks that follow it on the event are not
\* called, and a resume fires none of the events queued after that event.
C20_HandlerFaultPropagates ==
    ("thrown" \in DOMAIN lastOp) =>
       LET cbs == mCallbacks[lastOp.ev]
       IN /\ lastOp.thrown = "handler"
          /\ calls # <<>>
          /\ calls[Len(calls)].ev = lastOp.ev
          /\ calls[Len(calls)].obj = lastOp.obj
          /\ CallCount(calls, lastOp.ev, lastOp.obj) = 1
          /\ \A o \in Objs(cbs) :
                IndexOf(cbs, o) > IndexOf(cbs, lastOp.obj)
                   => CallCount(calls, lastOp.ev, o) = 0
          /\ Did("resume") =>
                \A i, j \in 1..Len(mEventQueue) :
                   (mEventQueue[i] = lastOp.ev /\ j > i)
                      => \A o \in Observers : CallCount(calls, mEventQueue[j], o) = 0

\* The first of two handlers of an event threw during a Fire in mode on.
C20_Witness ==
    /\ Did("fire") /\ "thrown" \in DOMAIN lastOp
    /\ Len(mCallbacks[lastOp.ev]) = 2
    /\ IndexOf(mCallbacks[lastOp.ev], lastOp.obj) = 1

\* C21: an unsubscribe by an observer that is not registered on the event
\* calls no handler and leaves every event's callbacks, the cached arguments,
\* the firing mode and the queue as they were.
C21_UnsubscribeUnknownIsNoOp ==
    [][ (lastOp'.op = "unsubscribe" /\ ~lastOp'.had) =>
           /\ calls' = <<>>
           /\ mCallbacks' = mCallbacks
           /\ mParams' = mParams
           /\ mFiringMode' = mFiringMode
           /\ mEventQueue' = mEventQueue
      ]_vars

\* While queueing with an event queued, an observer that is not registered on
\* an event that has another observer unsubscribed from it.
C21_Witness ==
    /\ Did("unsubscribe") /\ ~lastOp.had
    /\ mCallbacks[lastOp.ev] # <<>>
    /\ mFiringMode = "queue"
    /\ mEventQueue # <<>>

\* C22: SuspendEvents( true ) called while already queueing calls no handler
\* and leaves the mode, the queue, the cached arguments and the callbacks as
\* they were, so the calls a ResumeEvents() would make are the same before and
\* after it.
C22_SuspendQueueIdempotent ==
    [][ (lastOp'.op = "suspend" /\ lastOp'.val = "true" /\ mFiringMode = "queue") =>
           /\ calls' = <<>>
           /\ mFiringMode' = "queue"
           /\ mEventQueue' = mEventQueue
           /\ mParams' = mParams
           /\ mCallbacks' = mCallbacks
           /\ FireQueued(mEventQueue', mCallbacks', mParams')
                 = FireQueued(mEventQueue, mCallbacks, mParams)
      ]_vars

\* SuspendEvents( true ) was called while queueing, with every event queued
\* and observed.
C22_Witness ==
    /\ Did("suspend") /\ lastOp.val = "true" /\ lastOp.mode = "queue"
    /\ Len(mEventQueue) = Cardinality(Events)
    /\ \A e \in Events : mCallbacks[e] # <<>>

\* C23: a subscribe or an unsubscribe, on any event and in any mode, leaves
\* the firing mode and the queue as they were; on an event that is not bound
\* it also calls no handler.
C23_SubscriptionLeavesQueueAndMode ==
    [][ (lastOp'.op \in {"subscribe", "unsubscribe"}) =>
           /\ mFiringMode' = mFiringMode
           /\ mEventQueue' = mEventQueue
           /\ lastOp'.ev \in NormalEvents => calls' = <<>>
      ]_vars

====
